---------------------------- MODULE Spec2Model ----------------------------
(***************************************************************************)
(* A model of app.py (CSV rows to an RDF graph): the text helpers          *)
(* clean_for_uri, valid_literal, normalize_organization_name and           *)
(* detect_publication_type, and the row loop of generate_rdf_graph with    *)
(* its graph and its two registries, as called by the generate handler.    *)
(*                                                                         *)
(* A Python str is a sequence of one-character strings.  A character that  *)
(* is not ASCII is written by its name ("a_acute" is U+00E1, "rsquo" is    *)
(* U+2019).  A Python value is a record [kind, s]: a str, None, or the     *)
(* float NaN that pandas stores in a blank cell.                           *)
(***************************************************************************)
EXTENDS Naturals, Sequences, FiniteSets, Bags, TLC

\* ------------------------------------------------------------------ bounds
MaxLen == 3
MaxRows == 2
MaxRuns == 2
MaxFragments == 2

\* -------------------------------------------------------------- characters
LowerSeq == <<"a", "b", "c", "d", "e", "f", "g", "h", "i", "j", "k", "l", "m",
              "n", "o", "p", "q", "r", "s", "t", "u", "v", "w", "x", "y", "z">>
UpperSeq == <<"A", "B", "C", "D", "E", "F", "G", "H", "I", "J", "K", "L", "M",
              "N", "O", "P", "Q", "R", "S", "T", "U", "V", "W", "X", "Y", "Z">>
AccentFrom == <<"a_acute", "e_acute", "i_acute", "o_acute", "u_acute", "u_uml", "n_tilde",
                "A_acute", "E_acute", "I_acute", "O_acute", "U_acute", "U_uml", "N_tilde">>
AccentTo == <<"a", "e", "i", "o", "u", "u", "n", "A", "E", "I", "O", "U", "U", "N">>

Range(f) == {f[i] : i \in DOMAIN f}
IndexOf(seq, c) == CHOOSE i \in DOMAIN seq : seq[i] = c

LowerLetters == Range(LowerSeq)
UpperLetters == Range(UpperSeq)
Digits == {"0", "1", "2", "3", "4", "5", "6", "7", "8", "9"}
\* \s of the re module and the characters str.strip() removes
Whitespace == {" ", "\t", "\n"}
\* the character class of the first re.sub of clean_for_uri
UriPunct == {"<", ">", ":", "\"", "/", "\\", "|", "?", "*", "(", ")", "{", "}",
             "[", "]", ".", ",", ";", "'", "rsquo"}
\* [a-zA-Z0-9_-]
UriKept == LowerLetters \cup UpperLetters \cup Digits \cup {"_", "-"}

\* str.lower(), one character
LowerChar(c) ==
    IF c \in UpperLetters THEN LowerSeq[IndexOf(UpperSeq, c)]
    ELSE IF c \in {AccentFrom[i] : i \in 8..14} THEN AccentFrom[IndexOf(AccentFrom, c) - 7]
    ELSE c
PyLower(s) == [i \in DOMAIN s |-> LowerChar(s[i])]

\* str.translate(str.maketrans(a, b)), one character
TransChar(c) == IF c \in Range(AccentFrom) THEN AccentTo[IndexOf(AccentFrom, c)] ELSE c

\* ---------------------------------------------------------- Python values
PyNone == [kind |-> "none", s |-> <<>>]
PyNaN == [kind |-> "nan", s |-> <<>>]
PyStrOf(s) == [kind |-> "str", s |-> s]
\* a column the dataset does not have: row.get returns its default
Absent == [kind |-> "absent", s |-> <<>>]

\* pd.isna(value)
IsNa(v) == v.kind \in {"none", "nan"}
\* str(value)
PyStr(v) ==
    CASE v.kind = "str" -> v.s
      [] v.kind = "nan" -> <<"n", "a", "n">>
      [] OTHER -> <<"N", "o", "n", "e">>
\* the truth value of a Python value: None and "" are false, NaN is true
Truthy(v) == v.kind = "nan" \/ (v.kind = "str" /\ v.s # <<>>)

\* --------------------------------------------------------- str operations
RECURSIVE LStrip(_)
LStrip(s) == IF s # <<>> /\ Head(s) \in Whitespace THEN LStrip(Tail(s)) ELSE s
RECURSIVE RStrip(_)
RStrip(s) ==
    IF s # <<>> /\ s[Len(s)] \in Whitespace THEN RStrip(SubSeq(s, 1, Len(s) - 1)) ELSE s
\* str.strip()
Strip(s) == RStrip(LStrip(s))

\* str.split(sep) for a one-character sep: always at least one piece
RECURSIVE SplitFrom(_, _, _)
SplitFrom(s, sep, cur) ==
    IF s = <<>> THEN <<cur>>
    ELSE IF Head(s) = sep THEN <<cur>> \o SplitFrom(Tail(s), sep, <<>>)
    ELSE SplitFrom(Tail(s), sep, Append(cur, Head(s)))
Split(s, sep) == SplitFrom(s, sep, <<>>)

\* str.split(sep, 1): at most two pieces, cut at the first sep
Split1(s, sep) ==
    IF \E i \in DOMAIN s : s[i] = sep
    THEN LET i == CHOOSE k \in DOMAIN s : s[k] = sep /\ \A j \in 1..(k - 1) : s[j] # sep
         IN <<SubSeq(s, 1, i - 1), SubSeq(s, i + 1, Len(s))>>
    ELSE <<s>>

\* p in s
IsSubstring(p, s) ==
    \E i \in 0..(Len(s) - Len(p)) : \A j \in 1..Len(p) : s[i + j] = p[j]

\* re.sub(r'\s+', rep, s) for a one-character rep
RECURSIVE CollapseWs(_, _)
CollapseWs(s, rep) ==
    IF s = <<>> THEN <<>>
    ELSE IF Head(s) \in Whitespace THEN <<rep>> \o CollapseWs(LStrip(s), rep)
    ELSE <<Head(s)>> \o CollapseWs(Tail(s), rep)

\* re.sub(r'_+', '_', s)
RECURSIVE CollapseUnderscores(_)
CollapseUnderscores(s) ==
    IF s = <<>> THEN <<>>
    ELSE IF Head(s) = "_" /\ Len(s) > 1 /\ s[2] = "_" THEN CollapseUnderscores(Tail(s))
    ELSE <<Head(s)>> \o CollapseUnderscores(Tail(s))

\* ------------------------------------------------------------ clean_for_uri
clean_for_uri(text) ==
    IF ~Truthy(text) \/ IsNa(text) THEN <<"u", "n", "k", "n", "o", "w", "n">>
    ELSE LET t1 == [i \in DOMAIN PyStr(text) |-> TransChar(PyStr(text)[i])]
             t2 == SelectSeq(t1, LAMBDA c : c \notin UriPunct)
             t3 == CollapseWs(t2, "_")
             t4 == SelectSeq(t3, LAMBDA c : c \in UriKept)
             t5 == CollapseUnderscores(t4)
         IN PyLower(t5)

\* clean_for_uri of a str
Token(s) == clean_for_uri(PyStrOf(s))

\* ------------------------------------------------------------ valid_literal
valid_literal(value) ==
    IF IsNa(value) THEN PyNone
    ELSE LET s == Strip(PyStr(value))
         IN IF PyLower(s) \in {<<"n", "a", "n">>, <<>>} THEN PyNone ELSE PyStrOf(s)

\* ---------------------------------------------- normalize_organization_name
\* re.sub(r'\s*,?\s*\([^)]*\)\s*$', '', s): the group is the leftmost "(" after
\* which the only ")" is the last character before trailing whitespace
StripTrailingParens(s) ==
    LET r == RStrip(s)
        j == Len(r)
    IN IF j = 0 \/ r[j] # ")" THEN s
       ELSE LET opens == {i \in 1..(j - 1) :
                             r[i] = "(" /\ \A k \in (i + 1)..(j - 1) : r[k] # ")"}
            IN IF opens = {} THEN s
               ELSE LET i == CHOOSE o \in opens : \A o2 \in opens : o <= o2
                        b1 == RStrip(SubSeq(r, 1, i - 1))
                        b2 == IF b1 # <<>> /\ b1[Len(b1)] = ","
                              THEN RStrip(SubSeq(b1, 1, Len(b1) - 1)) ELSE b1
                    IN b2

\* re.sub(r'\s*,\s*[A-Z]{2,10}\s*$', '', s)
RECURSIVE UpperSuffixLen(_)
UpperSuffixLen(s) ==
    IF s # <<>> /\ s[Len(s)] \in UpperLetters
    THEN 1 + UpperSuffixLen(SubSeq(s, 1, Len(s) - 1)) ELSE 0
StripTrailingAbbrev(s) ==
    LET r == RStrip(s)
        n == UpperSuffixLen(r)
        b1 == RStrip(SubSeq(r, 1, Len(r) - n))
    IN IF n >= 2 /\ n <= 10 /\ b1 # <<>> /\ b1[Len(b1)] = ","
       THEN RStrip(SubSeq(b1, 1, Len(b1) - 1)) ELSE s

normalize_organization_name(org_name) ==
    IF ~Truthy(org_name) \/ IsNa(org_name) THEN PyNone
    ELSE LET s0 == Strip(PyStr(org_name))
         IN IF s0 = <<>> THEN PyNone
            ELSE PyStrOf(Strip(CollapseWs(StripTrailingAbbrev(StripTrailingParens(s0)), " ")))

\* -------------------------------------------------- detect_publication_type
conference_patterns ==
    <<<<"c", "o", "n", "f", "e", "r", "e", "n", "c", "e">>, <<"c", "o", "n", "f">>, <<"c", "o", "n", "g", "r", "e", "s", "s">>, <<"s", "y", "m", "p", "o", "s", "i", "u", "m">>, <<"p", "r", "o", "c", "e", "e", "d", "i", "n", "g", "s">>>>
journal_patterns ==
    <<<<"j", "o", "u", "r", "n", "a", "l">>, <<"r", "e", "v", "i", "s", "t", "a">>, <<"r", "e", "v", "i", "e", "w">>, <<"b", "u", "l", "l", "e", "t", "i", "n">>, <<"t", "r", "a", "n", "s", "a", "c", "t", "i", "o", "n", "s">>>>
book_series_patterns ==
    <<<<"l", "e", "c", "t", "u", "r", "e", " ", "n", "o", "t", "e", "s">>, <<"s", "e", "r", "i", "e", "s">>, <<"a", "d", "v", "a", "n", "c", "e", "s", " ", "i", "n">>>>

\* any(p in source_lower for p in patterns)
AnyIn(patterns, source_lower) ==
    \E k \in DOMAIN patterns : IsSubstring(patterns[k], source_lower)

\* A prefixed name "prefix:name" is the record [prefix, name]; None and "" are
\* NoType.  The configured types: article_types is the list under
\* scholarly_article (has_article_types: whether the key is there), pub_types
\* the map under publication_types, a missing key being NoType as .get gives
\* None.  A result is [raised, type, subtype]; raised is the IndexError of [0]
\* on an empty list.
Q(prefix, name) == [prefix |-> prefix, name |-> name]
NoType == Q("", "")
DefaultType(config) ==
    IF ~config.has_article_types THEN [raised |-> FALSE, type |-> Q("schema", "CreativeWork"), subtype |-> NoType]
    ELSE IF config.article_types = <<>> THEN [raised |-> TRUE, type |-> NoType, subtype |-> NoType]
    ELSE [raised |-> FALSE, type |-> config.article_types[1], subtype |-> NoType]

PubType(config, key) == config.pub_types[key]

\* a variant that tests the journal patterns before the conference patterns
DetectJournalFirst(source_title, config) ==
    IF ~Truthy(source_title) THEN DefaultType(config)
    ELSE LET source_lower == PyLower(source_title.s)
         IN IF AnyIn(journal_patterns, source_lower)
            THEN [raised |-> FALSE, type |-> Q("schema", "Periodical"), subtype |-> PubType(config, "journal")]
            ELSE IF AnyIn(conference_patterns, source_lower)
            THEN [raised |-> FALSE, type |-> Q("schema", "Event"), subtype |-> PubType(config, "conference")]
            ELSE IF AnyIn(book_series_patterns, source_lower)
            THEN [raised |-> FALSE, type |-> Q("schema", "BookSeries"), subtype |-> PubType(config, "book_series")]
            ELSE DefaultType(config)

detect_publication_type(source_title, config) ==
    IF ~Truthy(source_title) THEN DefaultType(config)
    ELSE LET source_lower == PyLower(source_title.s)
         IN IF AnyIn(conference_patterns, source_lower)
            THEN [raised |-> FALSE, type |-> Q("schema", "Event"), subtype |-> PubType(config, "conference")]
            ELSE IF AnyIn(journal_patterns, source_lower)
            THEN [raised |-> FALSE, type |-> Q("schema", "Periodical"), subtype |-> PubType(config, "journal")]
            ELSE IF AnyIn(book_series_patterns, source_lower)
            THEN [raised |-> FALSE, type |-> Q("schema", "BookSeries"), subtype |-> PubType(config, "book_series")]
            ELSE DefaultType(config)

\* ------------------------------------------------------- nodes and triples
\* A node is [k, ns, v, dt]: a URI (k = "uri") is the namespace ns followed by
\* v, a literal (k = "lit") is the text v with datatype or language tag dt.
BaseNs == <<"base_uri">>
Uri(ns, v) == [k |-> "uri", ns |-> ns, v |-> v, dt |-> ""]
\* BASE_URI[token]
BaseUri(token) == Uri(BaseNs, token)
\* Literal(text), Literal(text, datatype=...), Literal(text, lang=...)
Lit(v) == [k |-> "lit", ns |-> <<>>, v |-> v, dt |-> ""]
TypedLit(v, dt) == [k |-> "lit", ns |-> <<>>, v |-> v, dt |-> dt]
Triple(s, p, o) == [s |-> s, p |-> p, o |-> o]
RdfType == Uri(<<"http://www.w3.org/1999/02/22-rdf-syntax-ns#">>, <<"type">>)

\* resolve_prefix: config.namespaces maps the known prefixes to their URIs
resolve_prefix(pn, config) ==
    IF pn.prefix = "" THEN Uri(<<>>, <<pn.name>>)
    ELSE IF pn.prefix \in DOMAIN config.namespaces
    THEN Uri(<<config.namespaces[pn.prefix]>>, <<pn.name>>)
    ELSE Uri(<<"http://unknown.namespace/", pn.prefix, "/">>, <<pn.name>>)

\* ------------------------------------------------------------------- rows
LiteralFields == <<"title", "abstract", "volume", "issue", "page_start", "page_end">>
\* literal_mappings
LiteralProp(col_key) ==
    CASE col_key = "title" -> Q("schema", "name")
      [] col_key = "abstract" -> Q("schema", "abstract")
      [] col_key = "volume" -> Q("schema", "volumeNumber")
      [] col_key = "issue" -> Q("schema", "issueNumber")
      [] col_key = "page_start" -> Q("schema", "pageStart")
      [] col_key = "page_end" -> Q("schema", "pageEnd")
Fields == Range(LiteralFields) \cup
    {"id", "year", "doi", "link", "author_full_names", "author_ids",
     "author_abbreviations", "source_title", "funding_details", "cited_by",
     "kw1", "kw2"}

\* row.get(column, default) and row.get(column): a row maps every field to its
\* cell, Absent when the dataset has no such column
RowGet(row, field, default) == IF row[field].kind = "absent" THEN default ELSE row[field]
RowGetNone(row, field) == RowGet(row, field, PyNone)
EmptyStr == PyStrOf(<<>>)

\* ---------------------------------------------------------- the run's state
\* st = [g, adds, keyword_seen, organizations_registry, raised]: adds is the
\* log of the g.add calls, each with the step that made it
Add(st, site, t) ==
    [st EXCEPT !.g = @ \cup {t}, !.adds = @ (+) SetToBag({<<site, t>>})]

P(config, prefix, name) == resolve_prefix(Q(prefix, name), config)

\* "x = e; F(x)": the statement e runs once and what follows reads its result
Then(e, F(_)) == CHOOSE r \in {F(x) : x \in {e}} : TRUE

\* lines 121-126
RECURSIVE AddArticleTypes(_, _, _, _)
AddArticleTypes(st, article_uri, article_types, config) ==
    IF article_types = <<>> THEN st
    ELSE AddArticleTypes(
            IF Head(article_types) # NoType
            THEN Add(st, "article", Triple(article_uri, RdfType, resolve_prefix(Head(article_types), config)))
            ELSE st,
            article_uri, Tail(article_types), config)

\* lines 137-140
RECURSIVE AddLiterals(_, _, _, _, _)
AddLiterals(st, article_uri, row, keys, config) ==
    IF keys = <<>> THEN st
    ELSE LET value == valid_literal(RowGetNone(row, Head(keys)))
         IN AddLiterals(
                IF Truthy(value)
                THEN Add(st, "literal", Triple(article_uri, resolve_prefix(LiteralProp(Head(keys)), config), Lit(value.s)))
                ELSE st,
                article_uri, row, Tail(keys), config)

\* lines 143-150: the object is built from the raw cell, not the validated text
AddYearDoiLink(st, article_uri, row, config) ==
    LET s1 == IF Truthy(valid_literal(RowGetNone(row, "year")))
              THEN Add(st, "year", Triple(article_uri, P(config, "schema", "datePublished"),
                                          TypedLit(PyStr(row["year"]), "xsd:gYear")))
              ELSE st
        s2 == IF Truthy(valid_literal(RowGetNone(row, "doi")))
              THEN Add(s1, "doi", Triple(article_uri, P(config, "schema", "sameAs"),
                                         Uri(<<"https://doi.org/">>, PyStr(row["doi"]))))
              ELSE s1
    IN IF Truthy(valid_literal(RowGetNone(row, "link")))
       THEN Add(s2, "link", Triple(article_uri, P(config, "schema", "url"), Uri(<<>>, PyStr(row["link"]))))
       ELSE s2

\* re.match(r"(.+?)\s*\((\d+)\)", entry): [ok, id, name]
RECURSIVE DigitPrefixLen(_)
DigitPrefixLen(s) == IF s # <<>> /\ Head(s) \in Digits THEN 1 + DigitPrefixLen(Tail(s)) ELSE 0
MatchesIdGroup(rest) ==
    LET r == LStrip(rest)
        d == IF r # <<>> THEN DigitPrefixLen(Tail(r)) ELSE 0
    IN r # <<>> /\ Head(r) = "(" /\ d >= 1 /\ Len(r) >= d + 2 /\ r[d + 2] = ")"
MatchFullName(entry) ==
    LET cuts == {m \in 1..Len(entry) :
                    entry[m] # "\n" /\ MatchesIdGroup(SubSeq(entry, m + 1, Len(entry)))
                    /\ \A j \in 1..m : entry[j] # "\n"}
    IN IF cuts = {} THEN [ok |-> FALSE, id |-> <<>>, name |-> <<>>]
       ELSE LET m == CHOOSE c \in cuts : \A c2 \in cuts : c <= c2
                r == LStrip(SubSeq(entry, m + 1, Len(entry)))
            IN [ok |-> TRUE, id |-> Strip(SubSeq(r, 2, 1 + DigitPrefixLen(Tail(r)))),
                name |-> Strip(SubSeq(entry, 1, m))]

\* lines 153-159: the matched entries in order; a later one overwrites an
\* earlier one with the same id
FullNameMatches(row) ==
    LET full_names_str == Strip(PyStr(RowGet(row, "author_full_names", EmptyStr)))
        entries == IF full_names_str # <<>> THEN Split(full_names_str, ";") ELSE <<>>
        ms == [i \in DOMAIN entries |-> MatchFullName(Strip(entries[i]))]
    IN SelectSeq(ms, LAMBDA m : m.ok)
\* id_to_fullname.get(aid): None is the empty text
FullNameOf(matches, aid) ==
    LET hits == {i \in DOMAIN matches : matches[i].id = aid}
    IN IF hits = {} THEN <<>>
       ELSE matches[CHOOSE i \in hits : \A j \in hits : j <= i].name

\* a pairing that keeps every author id, with an empty abbreviation past the
\* end of the abbreviations
RECURSIVE ZipKeepIds(_, _)
ZipKeepIds(a, b) ==
    IF a = <<>> THEN <<>>
    ELSE <<<<Head(a), IF b = <<>> THEN <<>> ELSE Head(b)>>>>
         \o ZipKeepIds(Tail(a), IF b = <<>> THEN <<>> ELSE Tail(b))

\* zip(a, b): stops when either list is exhausted
RECURSIVE Zip(_, _)
Zip(a, b) ==
    IF a = <<>> \/ b = <<>> THEN <<>>
    ELSE <<<<Head(a), Head(b)>>>> \o Zip(Tail(a), Tail(b))

\* lines 164-180, one pair
AddAuthor(st, article_uri, pair, matches, config) ==
    LET aid == Strip(pair[1])
        abbrev == Strip(pair[2])
        author_uri == BaseUri(Token(aid))
        full_name == FullNameOf(matches, aid)
        s1 == Add(st, "author", Triple(author_uri, RdfType, resolve_prefix(config.author, config)))
        s2 == Add(s1, "author", Triple(author_uri, P(config, "schema", "identifier"), Lit(aid)))
        s3 == IF abbrev # <<>>
              THEN Add(s2, "author", Triple(author_uri, P(config, "rdfs", "label"), Lit(abbrev)))
              ELSE s2
        s4 == IF full_name # <<>>
              THEN Add(s3, "author", Triple(author_uri, P(config, "schema", "name"), Lit(full_name)))
              ELSE s3
        parts == Split1(full_name, ",")
        s5 == IF full_name # <<>> /\ Len(parts) = 2
              THEN Add(Add(s4, "author", Triple(author_uri, P(config, "schema", "familyName"), Lit(Strip(parts[1])))),
                       "author", Triple(author_uri, P(config, "schema", "givenName"), Lit(Strip(parts[2]))))
              ELSE s4
    IN IF aid = <<>> THEN st
       ELSE Add(s5, "author_link", Triple(article_uri, P(config, "schema", "author"), author_uri))

RECURSIVE AddAuthorPairs(_, _, _, _, _)
AddAuthorPairs(st, article_uri, pairs, matches, config) ==
    IF pairs = <<>> THEN st
    ELSE Then(AddAuthor(st, article_uri, Head(pairs), matches, config),
              LAMBDA s : AddAuthorPairs(s, article_uri, Tail(pairs), matches, config))

\* lines 153-180
AddAuthors(st, article_uri, row, config) ==
    LET author_ids == Split(PyStr(RowGet(row, "author_ids", EmptyStr)), ";")
        author_abbrevs == Split(PyStr(RowGet(row, "author_abbreviations", EmptyStr)), ";")
    IN Then(FullNameMatches(row),
            LAMBDA id_to_fullname :
                AddAuthorPairs(st, article_uri, Zip(author_ids, author_abbrevs), id_to_fullname, config))

\* lines 183-193
AddSource(st, article_uri, row, config) ==
    LET source_title == valid_literal(RowGetNone(row, "source_title"))
        periodical_uri == BaseUri(clean_for_uri(source_title))
        det == detect_publication_type(source_title, config)
        s1 == IF det.type # NoType
              THEN Add(st, "source", Triple(periodical_uri, RdfType, resolve_prefix(det.type, config)))
              ELSE st
        s2 == IF det.subtype # NoType
              THEN Add(s1, "source", Triple(periodical_uri, RdfType, resolve_prefix(det.subtype, config)))
              ELSE s1
        s3 == Add(s2, "source", Triple(periodical_uri, P(config, "schema", "name"), Lit(source_title.s)))
    IN IF ~Truthy(source_title) THEN st
       ELSE IF det.raised THEN [st EXCEPT !.raised = TRUE]
       ELSE Add(s3, "source_link", Triple(article_uri, P(config, "schema", "isPartOf"), periodical_uri))

\* the update d[key] = value of a dict
DictPut(d, key, value) == [x \in DOMAIN d \cup {key} |-> IF x = key THEN value ELSE d[x]]
EmptyDict == [x \in {} |-> <<>>]

\* a funding step that declares the organization at every entry
AddFundingEntryNoRegistry(st, article_uri, org_raw, config) ==
    LET org_normalized == normalize_organization_name(PyStrOf(Strip(org_raw)))
        org_uri_id == clean_for_uri(org_normalized)
        org_uri == BaseUri(org_uri_id)
        s1 == Add(st, "funding_type", Triple(org_uri, RdfType, resolve_prefix(config.funding_organization, config)))
        s2 == Add(s1, "funding_name", Triple(org_uri, P(config, "schema", "name"), Lit(org_normalized.s)))
        s3 == [s2 EXCEPT !.organizations_registry = DictPut(@, org_uri_id, org_normalized.s)]
    IN IF ~Truthy(org_normalized) THEN st
       ELSE Add(s3, "funding_link", Triple(article_uri, P(config, "schema", "funding"), org_uri))

\* lines 199-208, one entry of funding_details
AddFundingEntry(st, article_uri, org_raw, config) ==
    LET org_normalized == normalize_organization_name(PyStrOf(Strip(org_raw)))
        org_uri_id == clean_for_uri(org_normalized)
        org_uri == BaseUri(org_uri_id)
        s1 == Add(st, "funding_type", Triple(org_uri, RdfType, resolve_prefix(config.funding_organization, config)))
        s2 == Add(s1, "funding_name", Triple(org_uri, P(config, "schema", "name"), Lit(org_normalized.s)))
        s3 == IF org_uri_id \notin DOMAIN st.organizations_registry
              THEN [s2 EXCEPT !.organizations_registry = DictPut(@, org_uri_id, org_normalized.s)]
              ELSE st
    IN IF ~Truthy(org_normalized) THEN st
       ELSE Add(s3, "funding_link", Triple(article_uri, P(config, "schema", "funding"), org_uri))

RECURSIVE AddFundingEntries(_, _, _, _)
AddFundingEntries(st, article_uri, entries, config) ==
    IF entries = <<>> THEN st
    ELSE Then(AddFundingEntry(st, article_uri, Head(entries), config),
              LAMBDA s : AddFundingEntries(s, article_uri, Tail(entries), config))

\* lines 196-208
AddFunding(st, article_uri, row, config) ==
    LET funding_details == valid_literal(RowGetNone(row, "funding_details"))
    IN IF Truthy(funding_details)
       THEN AddFundingEntries(st, article_uri, Split(funding_details.s, ";"), config)
       ELSE st

\* a keyword step that declares the keyword at every occurrence
AddKeywordNoRegistry(st, article_uri, kw_raw, config) ==
    LET kw == Strip(kw_raw)
        norm == Token(kw)
        kw_uri == BaseUri(norm)
        s1 == Add(st, "keyword_type", Triple(kw_uri, RdfType, resolve_prefix(config.keyword, config)))
        s2 == Add(s1, "keyword_label", Triple(kw_uri, P(config, "skos", "prefLabel"), TypedLit(kw, "@en")))
        s3 == [s2 EXCEPT !.keyword_seen = DictPut(@, norm, kw)]
    IN IF kw = <<>> THEN st
       ELSE Add(s3, "keyword_link", Triple(article_uri, P(config, "dct", "subject"), kw_uri))

\* a keyword step that keeps the latest spelling of a keyword it has seen
AddKeywordRelabel(st, article_uri, kw_raw, config) ==
    LET kw == Strip(kw_raw)
        norm == Token(kw)
        kw_uri == BaseUri(norm)
        s1 == Add(st, "keyword_type", Triple(kw_uri, RdfType, resolve_prefix(config.keyword, config)))
        s2 == Add(s1, "keyword_label", Triple(kw_uri, P(config, "skos", "prefLabel"), TypedLit(kw, "@en")))
        s3 == IF norm \notin DOMAIN st.keyword_seen
              THEN [s2 EXCEPT !.keyword_seen = DictPut(@, norm, kw)]
              ELSE [st EXCEPT !.keyword_seen = DictPut(@, norm, kw)]
    IN IF kw = <<>> THEN st
       ELSE Add(s3, "keyword_link", Triple(article_uri, P(config, "dct", "subject"), kw_uri))

\* lines 215-224, one keyword
AddKeyword(st, article_uri, kw_raw, config) ==
    LET kw == Strip(kw_raw)
        norm == Token(kw)
        kw_uri == BaseUri(norm)
        s1 == Add(st, "keyword_type", Triple(kw_uri, RdfType, resolve_prefix(config.keyword, config)))
        s2 == Add(s1, "keyword_label", Triple(kw_uri, P(config, "skos", "prefLabel"), TypedLit(kw, "@en")))
        s3 == IF norm \notin DOMAIN st.keyword_seen
              THEN [s2 EXCEPT !.keyword_seen = DictPut(@, norm, kw)]
              ELSE st
    IN IF kw = <<>> THEN st
       ELSE Add(s3, "keyword_link", Triple(article_uri, P(config, "dct", "subject"), kw_uri))

RECURSIVE AddKeywordList(_, _, _, _)
AddKeywordList(st, article_uri, kws, config) ==
    IF kws = <<>> THEN st
    ELSE Then(AddKeyword(st, article_uri, Head(kws), config),
              LAMBDA s : AddKeywordList(s, article_uri, Tail(kws), config))

\* lines 211-224
RECURSIVE AddKeywords(_, _, _, _, _)
AddKeywords(st, article_uri, row, columns, config) ==
    IF columns = <<>> THEN st
    ELSE LET keywords_raw == RowGet(row, Head(columns), EmptyStr)
         IN Then(IF ~IsNa(keywords_raw)
                 THEN AddKeywordList(st, article_uri, Split(PyStr(keywords_raw), ";"), config)
                 ELSE st,
                 LAMBDA s : AddKeywords(s, article_uri, row, Tail(columns), config))

\* int(text) of a stripped str: an optional sign, then digits that single
\* underscores may separate
IsIntText(s) ==
    LET body == IF s # <<>> /\ Head(s) \in {"+", "-"} THEN Tail(s) ELSE s
    IN /\ body # <<>>
       /\ \A i \in DOMAIN body : body[i] \in Digits \cup {"_"}
       /\ body[1] # "_" /\ body[Len(body)] # "_"
       /\ \A i \in 1..(Len(body) - 1) : ~(body[i] = "_" /\ body[i + 1] = "_")
\* the decimal text of int(text)
RECURSIVE DropLeadingZeros(_)
DropLeadingZeros(d) == IF Len(d) > 1 /\ Head(d) = "0" THEN DropLeadingZeros(Tail(d)) ELSE d
IntText(s) ==
    LET body == IF Head(s) \in {"+", "-"} THEN Tail(s) ELSE s
        digits == DropLeadingZeros(SelectSeq(body, LAMBDA c : c # "_"))
    IN IF Head(s) = "-" /\ digits # <<"0">> THEN <<"-">> \o digits ELSE digits

\* a citation step that skips a count int() cannot parse
AddCitationSkipBad(st, article_uri, eid, row, inspection, config) ==
    LET cited_by == valid_literal(RowGetNone(row, "cited_by"))
        obs_uri == BaseUri(Token(eid \o <<"-", "c", "i", "t", "a", "t", "i", "o", "n", "s", "-">> \o inspection))
        s1 == Add(st, "citation", Triple(obs_uri, RdfType, resolve_prefix(config.citation_observation, config)))
        s2 == Add(s1, "citation", Triple(obs_uri, P(config, "schema", "value"), TypedLit(IntText(cited_by.s), "xsd:integer")))
        s3 == Add(s2, "citation", Triple(obs_uri, P(config, "schema", "observationDate"), TypedLit(inspection, "xsd:date")))
    IN IF ~Truthy(cited_by) \/ ~IsIntText(cited_by.s) THEN st
       ELSE Add(s3, "citation", Triple(article_uri, BaseUri(<<"citationCount">>), obs_uri))

\* lines 227-234: int(cited_by) raises after the observation's type triple
AddCitation(st, article_uri, eid, row, inspection, config) ==
    LET cited_by == valid_literal(RowGetNone(row, "cited_by"))
        obs_uri == BaseUri(Token(eid \o <<"-", "c", "i", "t", "a", "t", "i", "o", "n", "s", "-">> \o inspection))
        s1 == Add(st, "citation", Triple(obs_uri, RdfType, resolve_prefix(config.citation_observation, config)))
        s2 == Add(s1, "citation", Triple(obs_uri, P(config, "schema", "value"), TypedLit(IntText(cited_by.s), "xsd:integer")))
        s3 == Add(s2, "citation", Triple(obs_uri, P(config, "schema", "observationDate"), TypedLit(inspection, "xsd:date")))
    IN IF ~Truthy(cited_by) THEN st
       ELSE IF ~IsIntText(cited_by.s) THEN [s1 EXCEPT !.raised = TRUE]
       ELSE Add(s3, "citation", Triple(article_uri, BaseUri(<<"citationCount">>), obs_uri))

\* line 115
RowEid(row) == Token(Strip(PyStr(RowGet(row, "id", EmptyStr))))
\* lines 116-117
RowSkipped(row) == RowEid(row) = <<"u", "n", "k", "n", "o", "w", "n">>

\* lines 114-234, one row of the loop
RowStep(st, row, inspection, config) ==
    LET eid == RowEid(row)
        article_uri == BaseUri(eid)
        s1 == AddArticleTypes(st, article_uri,
                  IF config.has_article_types THEN config.article_types ELSE <<>>, config)
        s2 == Add(s1, "identifier", Triple(article_uri, P(config, "schema", "identifier"), Lit(eid)))
        s3 == AddLiterals(s2, article_uri, row, LiteralFields, config)
        s4 == AddYearDoiLink(s3, article_uri, row, config)
    IN IF RowSkipped(row) THEN st
       ELSE Then(AddSource(AddAuthors(s4, article_uri, row, config), article_uri, row, config),
                 LAMBDA s6 :
                     IF s6.raised THEN s6
                     ELSE Then(AddFunding(s6, article_uri, row, config),
                               LAMBDA s7 :
                                   Then(AddKeywords(s7, article_uri, row, config.keyword_columns, config),
                                        LAMBDA s8 : AddCitation(s8, article_uri, eid, row, inspection, config))))

\* lines 94-111: the state a run starts from
NewRun == [g |-> {}, adds |-> EmptyBag, keyword_seen |-> EmptyDict,
           organizations_registry |-> EmptyDict, raised |-> FALSE]

\* the loop over the first rows of a dataset, stopping at the row that raises
RECURSIVE RunRows(_, _, _, _)
RunRows(st, dataset, inspection, config) ==
    IF dataset = <<>> \/ st.raised THEN st
    ELSE Then(RowStep(st, Head(dataset), inspection, config),
              LAMBDA s : RunRows(s, Tail(dataset), inspection, config))

\* ----------------------------------------------------------- configurations
\* The configuration the handler passes (lines 365-371), as the fields that
\* generate_rdf_graph and detect_publication_type read.
CfgDefault ==
    [has_article_types |-> TRUE,
     article_types |-> <<Q("schema", "ScholarlyArticle"), Q("bibo", "AcademicArticle")>>,
     pub_types |-> [conference |-> Q("bibo", "Conference"), journal |-> Q("bibo", "Journal"),
                    book_series |-> Q("bibo", "Series")],
     author |-> Q("schema", "Person"),
     funding_organization |-> Q("schema", "Organization"),
     keyword |-> Q("skos", "Concept"),
     citation_observation |-> Q("schema", "Observation"),
     namespaces |-> [schema |-> "https://schema.org/", bibo |-> "http://purl.org/ontology/bibo/",
                     skos |-> "http://www.w3.org/2004/02/skos/core#",
                     dct |-> "http://purl.org/dc/terms/",
                     rdfs |-> "http://www.w3.org/2000/01/rdf-schema#"],
     keyword_columns |-> <<"kw1", "kw2">>,
     inspection_date |-> <<"2", "0", "2", "4", "-", "0", "1", "-", "0", "1">>]
\* one article type without a prefix, no publication subtypes, most prefixes
\* unknown, one keyword column, the inspection date left to the day of the run
CfgSparse ==
    [CfgDefault EXCEPT !.article_types = <<Q("", "Article")>>,
                       !.pub_types = [conference |-> NoType, journal |-> NoType, book_series |-> NoType],
                       !.namespaces = [schema |-> "https://schema.org/"],
                       !.keyword_columns = <<"kw1">>,
                       !.inspection_date = <<"t", "o", "d", "a", "y">>]
\* every article type deleted in the form (lines 284-285)
CfgNoArticleTypes == [CfgDefault EXCEPT !.article_types = <<>>]
\* one article type, only the conference subtype configured
CfgOneType ==
    [CfgDefault EXCEPT !.article_types = <<Q("schema", "Article")>>,
                       !.pub_types = [conference |-> Q("bibo", "Conference"), journal |-> NoType,
                                      book_series |-> NoType]]
\* entity_types without the scholarly_article key: .get gives its default
CfgNoKey == [CfgOneType EXCEPT !.has_article_types = FALSE, !.article_types = <<>>]
Configs == {CfgDefault, CfgSparse}
DetectConfigs == {CfgDefault, CfgSparse, CfgNoArticleTypes, CfgOneType, CfgNoKey}
\* date.today().isoformat() on the day of the run
Todays == {<<"2", "0", "2", "6", "-", "0", "1", "-", "0", "1">>, <<"2", "0", "2", "6", "-", "0", "1", "-", "0", "2">>}

\* ------------------------------------------------------------------- rows
Row(id, cells) == [f \in Fields |-> IF f = "id" THEN id
                                    ELSE IF f \in DOMAIN cells THEN cells[f] ELSE Absent]
S(text) == PyStrOf(text)
IdA == S(<<"A", "1">>)
IdB == S(<<"B", "2">>)
Blank == S(<<" ">>)

\* the row of the end-to-end example: no other column is in the dataset
PayloadEndToEnd ==
    [title |-> S(<<"D", "e", "e", "p", " ", "L", "e", "a", "r", "n", "i", "n", "g">>), year |-> S(<<"2", "0", "2", "2">>), author_ids |-> S(<<"1", ";", "2">>),
     author_full_names |-> S(<<"S", "m", "i", "t", "h", ",", " ", "J", ".", " ", "(", "1", ")", ";", " ", "L", "e", "e", ",", " ", "K", ".", " ", "(", "2", ")">>),
     source_title |-> S(<<"I", "E", "E", "E", " ", "J", "o", "u", "r", "n", "a", "l", " ", "o", "f", " ", "X">>)]
\* more author ids than abbreviations, an empty id, an id without a full name,
\* a full name without a comma; a keyword in two spellings and two columns
PayloadLongIds ==
    [author_ids |-> S(<<"1", ";", " ", ";", "3", ";", "4", ";", "5">>), author_abbreviations |-> S(<<"S", "m", "i", "t", "h", " ", "J", ".", ";", "x", ";", ";">>),
     author_full_names |-> S(<<"S", "m", "i", "t", "h", ",", " ", "J", ".", " ", "(", "1", ")", ";", " ", "C", "h", "e", "r", " ", "(", "3", ")", ";", " ", "L", "e", "e", ",", " ", "K", ".", " ", "(", "5", ")">>),
     kw1 |-> S(<<"A", "I", ";", " ", "m", "l">>), kw2 |-> S(<<"a", "i", ";", ";", "M", "l">>)]
\* more abbreviations than author ids; a funder with a parenthetical
PayloadLongAbbrevs ==
    [author_ids |-> S(<<"7">>), author_abbreviations |-> S(<<"P", "o", "e", " ", "E", ".", ";", "L", "e", "e", " ", "K", ".">>),
     funding_details |-> S(<<"W", "o", "r", "l", "d", " ", "B", "a", "n", "k", " ", "(", "W", "B", ")", ";", "N", "S", "F">>), kw1 |-> S(<<"a", ".", "i", ".", ";", "n", "a", "n">>), kw2 |-> PyNaN]
\* every cell blank in the file, which pandas reads as NaN
PayloadAllNaN == [f \in Fields \ {"id"} |-> PyNaN]
\* cells that are empty, whitespace or the text "nan"; the other columns absent
PayloadNoValues ==
    [title |-> S(<<" ">>), abstract |-> S(<<"n", "a", "n">>), volume |-> S(<<>>), year |-> S(<<" ", "N", "a", "N", " ">>),
     doi |-> S(<<" ">>), link |-> S(<<"n", "a", "n">>), author_full_names |-> S(<<" ">>),
     author_ids |-> S(<<" ">>), author_abbreviations |-> S(<<>>), source_title |-> S(<<"N", "A", "N">>),
     funding_details |-> S(<<" ", "n", "a", "n">>), kw1 |-> S(<<" ", ";", " ">>), cited_by |-> S(<<" ">>)]
\* two spellings of one funder in one row; a citation count int() accepts
PayloadFundingSameRow == [funding_details |-> S(<<"N", ".", "S", ".", "F", ";", " ", "N", "S", "F">>), cited_by |-> S(<<" ", "0", "1", "2", " ">>)]
\* a funder with an abbreviation, entries that normalize to nothing, a venue
\* with the token of a funder
PayloadFundingAbbrev ==
    [funding_details |-> S(<<"W", "o", "r", "l", "d", " ", "B", "a", "n", "k", ",", " ", "W", "B", ";", " ", ";", "(", "x", ")">>), source_title |-> S(<<"n", "s", "f">>),
     kw1 |-> S(<<"m", "l">>)]
\* a citation count as pandas reads a column with a blank cell in it
PayloadCitedFloat == [cited_by |-> S(<<"1", "2", ".", "0">>), funding_details |-> S(<<"N", "S", "F">>), kw1 |-> S(<<"A", "I">>)]
PayloadLiterals ==
    [title |-> S(<<" ", "T", " ">>), abstract |-> S(<<"x">>), volume |-> S(<<"1">>), issue |-> PyNaN,
     page_start |-> S(<<"n", "a", "n">>), page_end |-> S(<<"9">>), year |-> S(<<" ", "2", "0", "2", "2">>),
     doi |-> S(<<"1", "0", ".", "1", "/", "x">>), link |-> S(<<"h", "t", "t", "p", ":", "/", "/", "x">>), source_title |-> S(<<"C", "o", "n", "f", " ", "R", "e", "v", "i", "e", "w", " ", "S", "e", "r", "i", "e", "s">>)]
PayloadKeywords == [kw1 |-> S(<<"A", "I", ";", " ", "m", "l">>), funding_details |-> S(<<"N", "S", "F">>)]

\* the rows a dataset is drawn from
Rows ==
    {Row(IdA, p) : p \in {PayloadEndToEnd, PayloadLongIds, PayloadAllNaN, PayloadNoValues,
                          PayloadFundingSameRow, PayloadLiterals}}
    \cup {Row(IdB, p) : p \in {PayloadLongAbbrevs, PayloadFundingAbbrev, PayloadCitedFloat}}
    \cup {Row(Blank, PayloadEndToEnd), Row(PyNaN, PayloadKeywords), Row(Absent, PayloadKeywords)}

\* -------------------------------------------------------------- variables
VARIABLES
    cfg,                     \* the configuration of the session
    run,                     \* how many times the generate button was pressed
    pc,                      \* "idle", "rows", "raised", "done", "failed"
    rows,                    \* the rows the loop has gone through in this run
    g,                       \* the graph of the run
    adds,                    \* the g.add calls of the run
    keyword_seen,
    organizations_registry,
    inspection_date,         \* the inspection date of the run
    output,                  \* what the handler got from the last run
    ptext, pcfg, pout, pout2, ppc   \* a helper applied to an input of its own

engine == <<cfg, run, pc, rows, g, adds, keyword_seen, organizations_registry,
            inspection_date, output>>
helper == <<ptext, pcfg, pout, pout2, ppc>>
vars == <<engine, helper>>

NoOutput == [kind |-> "none", graph |-> {}, triple_count |-> 0]
NoResult == [raised |-> FALSE, type |-> NoType, subtype |-> NoType]

EngineIdle ==
    /\ run = 0 /\ pc = "idle" /\ rows = <<>> /\ g = {} /\ adds = EmptyBag
    /\ keyword_seen = EmptyDict /\ organizations_registry = EmptyDict
    /\ inspection_date = <<>> /\ output = NoOutput
HelperIdle ==
    /\ ptext = PyNone /\ pcfg = CfgDefault /\ pout = <<>> /\ pout2 = <<>> /\ ppc = "off"

\* ---------------------------------------------------- generate_rdf_graph
Init == cfg \in Configs /\ EngineIdle /\ HelperIdle

\* lines 358-376 and 94-111: the button starts a run with an empty graph and
\* empty registries
Generate ==
    /\ pc \in {"idle", "done", "failed"}
    /\ run < MaxRuns
    /\ run' = run + 1
    /\ pc' = "rows"
    /\ rows' = <<>>
    /\ g' = {} /\ adds' = EmptyBag
    /\ keyword_seen' = EmptyDict /\ organizations_registry' = EmptyDict
    /\ inspection_date' \in (IF cfg.inspection_date = <<"t", "o", "d", "a", "y">> THEN Todays ELSE {cfg.inspection_date})
    /\ output' = NoOutput
    /\ UNCHANGED <<cfg, helper>>

State == [g |-> g, adds |-> adds, keyword_seen |-> keyword_seen,
          organizations_registry |-> organizations_registry, raised |-> FALSE]

\* lines 114-234: the loop takes the next row of the dataset
NextRow ==
    /\ pc = "rows"
    /\ Len(rows) < MaxRows
    /\ \E row \in Rows :
          \E st \in {RowStep(State, row, inspection_date, cfg)} :
             /\ rows' = Append(rows, row)
             /\ g' = st.g /\ adds' = st.adds
             /\ keyword_seen' = st.keyword_seen
             /\ organizations_registry' = st.organizations_registry
             /\ pc' = IF st.raised THEN "raised" ELSE "rows"
    /\ UNCHANGED <<cfg, run, inspection_date, output, helper>>

\* lines 235-236 and 376: the dataset is exhausted, the graph is serialized and
\* returned with its size; the locals of the call are gone
Finalize ==
    /\ pc = "rows"
    /\ output' = [kind |-> "ok", graph |-> g, triple_count |-> Cardinality(g)]
    /\ pc' = "done"
    /\ g' = {} /\ adds' = EmptyBag
    /\ keyword_seen' = EmptyDict /\ organizations_registry' = EmptyDict
    /\ UNCHANGED <<cfg, run, rows, inspection_date, helper>>

\* lines 393-395: the exception leaves generate_rdf_graph and the handler
\* reports it; nothing was returned
Catch ==
    /\ pc = "raised"
    /\ output' = [kind |-> "error", graph |-> {}, triple_count |-> 0]
    /\ pc' = "failed"
    /\ g' = {} /\ adds' = EmptyBag
    /\ keyword_seen' = EmptyDict /\ organizations_registry' = EmptyDict
    /\ UNCHANGED <<cfg, run, rows, inspection_date, helper>>

Next == Generate \/ NextRow \/ Finalize \/ Catch
Spec == Init /\ [][Next]_vars

\* ------------------------------------------------------------ clean_for_uri
CleanAlphabet == {"a", "Z", "7", "_", "-", " ", ".", "e_acute", "N_tilde", "c_cedilla"}
RECURSIVE TextsUpTo(_, _)
TextsUpTo(alphabet, n) ==
    IF n = 0 THEN {<<>>}
    ELSE LET shorter == TextsUpTo(alphabet, n - 1)
         IN shorter \cup {Append(t, c) : t \in shorter, c \in alphabet}
CleanInputs == {PyNone, PyNaN} \cup {PyStrOf(t) : t \in TextsUpTo(CleanAlphabet, MaxLen)}

InitClean ==
    /\ cfg = CfgDefault /\ EngineIdle
    /\ ptext \in CleanInputs /\ pcfg = CfgDefault /\ pout = <<>> /\ pout2 = <<>> /\ ppc = "input"

CleanOnce ==
    /\ ppc = "input"
    /\ pout' = clean_for_uri(ptext)
    /\ ppc' = "once"
    /\ UNCHANGED <<engine, ptext, pcfg, pout2>>

CleanTwice ==
    /\ ppc = "once"
    /\ pout2' = clean_for_uri(PyStrOf(pout))
    /\ ppc' = "twice"
    /\ UNCHANGED <<engine, ptext, pcfg, pout>>

NextClean == CleanOnce \/ CleanTwice
SpecClean == InitClean /\ [][NextClean]_vars

\* -------------------------------------------------- detect_publication_type
TitleFragments ==
    {<<"C", "o", "n", "f", "e", "r", "e", "n", "c", "e">>, <<"c", "o", "n", "f">>, <<"P", "R", "O", "C", "E", "E", "D", "I", "N", "G", "S">>, <<"J", "o", "u", "r", "n", "a", "l">>, <<"r", "e", "v", "i", "e", "w">>, <<"L", "e", "c", "t", "u", "r", "e", " ", "N", "o", "t", "e", "s">>,
     <<"s", "e", "r", "i", "e", "s">>, <<"N", "a", "t", "u", "r", "e">>, <<" ", "o", "f", " ">>, <<"X">>}
RECURSIVE TitlesUpTo(_)
TitlesUpTo(n) ==
    IF n = 0 THEN {<<>>}
    ELSE LET shorter == TitlesUpTo(n - 1)
         IN shorter \cup {t \o f : t \in shorter, f \in TitleFragments}
DetectInputs == {PyNone} \cup {PyStrOf(t) : t \in TitlesUpTo(MaxFragments)}

InitDetect ==
    /\ cfg = CfgDefault /\ EngineIdle
    /\ ptext \in DetectInputs /\ pcfg \in DetectConfigs
    /\ pout = NoResult /\ pout2 = <<>> /\ ppc = "input"

Detect ==
    /\ ppc = "input"
    /\ pout' = detect_publication_type(ptext, pcfg)
    /\ ppc' = "once"
    /\ UNCHANGED <<engine, ptext, pcfg, pout2>>

NextDetect == Detect
SpecDetect == InitDetect /\ [][NextDetect]_vars

\* ================================================================= claims
\* ---- clean_for_uri (under SpecClean)
UriSafe == LowerLetters \cup Digits \cup {"_", "-"}

\* C2: for every input text, the output of clean_for_uri is a non-empty text
\* of lowercase ASCII letters, digits, underscore and hyphen only, or is
\* exactly "unknown".
C2_OutputNonEmptyUriSafe ==
    ppc \in {"once", "twice"} =>
        \/ pout = <<"u", "n", "k", "n", "o", "w", "n">>
        \/ (pout # <<>> /\ \A i \in DOMAIN pout : pout[i] \in UriSafe)

\* C3: clean_for_uri is idempotent: cleaning its output again gives the same
\* output, for every input.
C3_Idempotent == ppc = "twice" => pout2 = pout

\* ---- detect_publication_type (under SpecDetect)
HasPattern(patterns, title) == \E k \in DOMAIN patterns : IsSubstring(patterns[k], title)
TypeResult(type, subtype) == [raised |-> FALSE, type |-> type, subtype |-> subtype]
\* the first configured article type, schema:CreativeWork without the key
FirstArticleType(config) ==
    IF config.has_article_types THEN config.article_types[1] ELSE Q("schema", "CreativeWork")
HasFirstArticleType(config) == ~config.has_article_types \/ config.article_types # <<>>

\* C8: the classifier tests the conference, journal and book series patterns
\* in that order and the first set that matches wins: a title that holds a
\* conference pattern is schema:Event with the configured conference subtype
\* whatever else it holds; a title that matches no set, and an absent title,
\* give the first configured article type (schema:CreativeWork without the
\* key) and no subtype.
C8_ConferenceFirst ==
    ppc = "once" =>
        LET present == ptext.kind = "str" /\ ptext.s # <<>>
            lower == PyLower(ptext.s)
            conf == HasPattern(conference_patterns, lower)
            jour == HasPattern(journal_patterns, lower)
            book == HasPattern(book_series_patterns, lower)
        IN /\ (present /\ HasPattern(conference_patterns, ptext.s))
                  => pout = TypeResult(Q("schema", "Event"), pcfg.pub_types.conference)
           /\ (present /\ conf)
                  => pout = TypeResult(Q("schema", "Event"), pcfg.pub_types.conference)
           /\ (present /\ ~conf /\ jour)
                  => pout = TypeResult(Q("schema", "Periodical"), pcfg.pub_types.journal)
           /\ (present /\ ~conf /\ ~jour /\ book)
                  => pout = TypeResult(Q("schema", "BookSeries"), pcfg.pub_types.book_series)
           /\ ((~present \/ (~conf /\ ~jour /\ ~book)) /\ HasFirstArticleType(pcfg))
                  => pout = TypeResult(FirstArticleType(pcfg), NoType)

\* a title with a conference, a journal and no book series pattern was
\* classified, under a configuration that has both subtypes
C8_Witness ==
    /\ ppc = "once" /\ ptext.kind = "str"
    /\ HasPattern(conference_patterns, PyLower(ptext.s))
    /\ HasPattern(journal_patterns, PyLower(ptext.s))
    /\ pcfg.pub_types.conference # NoType /\ pcfg.pub_types.journal # NoType
    /\ pout.type = Q("schema", "Event")

\* ---- generate_rdf_graph (under Spec)
\* the loop is running or has just raised: the graph and the registries are live
InRun == pc \in {"rows", "raised"}
\* what a fresh run gives on a dataset
FreshRun(dataset) == RunRows(NewRun, dataset, inspection_date, cfg)
\* a cell without a value: no column, a missing or NaN cell, empty or
\* whitespace text
BlankCell(cell) == cell.kind # "str" \/ Strip(cell.s) = <<>>
\* the same, or the text "nan"
NoValueCell(cell) == BlankCell(cell) \/ PyLower(Strip(cell.s)) = <<"n", "a", "n">>

\* C1: a row whose main-identifier cell is blank (empty, whitespace only,
\* missing or NaN) produces no triple, and the graph is the one the dataset
\* without the blank rows gives.
C1_BlankIdRowsInert ==
    pc = "rows" => g = FreshRun(SelectSeq(rows, LAMBDA r : ~BlankCell(r["id"]))).g

\* C5: the row of the end-to-end example gives the article's type triples,
\* identifier, name and gYear "2022", two author entities with identifier,
\* name, family name and given name, two article-to-author links, a venue
\* typed Periodical with the journal subtype and one isPartOf link.
EndToEndAuthor(config, id, name, family, given) ==
    {Triple(BaseUri(id), RdfType, resolve_prefix(config.author, config)),
     Triple(BaseUri(id), P(config, "schema", "identifier"), Lit(id)),
     Triple(BaseUri(id), P(config, "schema", "name"), Lit(name)),
     Triple(BaseUri(id), P(config, "schema", "familyName"), Lit(family)),
     Triple(BaseUri(id), P(config, "schema", "givenName"), Lit(given)),
     Triple(BaseUri(<<"a", "1">>), P(config, "schema", "author"), BaseUri(id))}
EndToEndTriples(config) ==
    {Triple(BaseUri(<<"a", "1">>), RdfType, resolve_prefix(config.article_types[i], config)) :
        i \in DOMAIN config.article_types}
    \cup {Triple(BaseUri(<<"a", "1">>), P(config, "schema", "identifier"), Lit(<<"a", "1">>)),
          Triple(BaseUri(<<"a", "1">>), P(config, "schema", "name"), Lit(<<"D", "e", "e", "p", " ", "L", "e", "a", "r", "n", "i", "n", "g">>)),
          Triple(BaseUri(<<"a", "1">>), P(config, "schema", "datePublished"), TypedLit(<<"2", "0", "2", "2">>, "xsd:gYear")),
          Triple(BaseUri(<<"i", "e", "e", "e", "_", "j", "o", "u", "r", "n", "a", "l", "_", "o", "f", "_", "x">>), RdfType, P(config, "schema", "Periodical")),
          Triple(BaseUri(<<"i", "e", "e", "e", "_", "j", "o", "u", "r", "n", "a", "l", "_", "o", "f", "_", "x">>), RdfType, resolve_prefix(config.pub_types.journal, config)),
          Triple(BaseUri(<<"i", "e", "e", "e", "_", "j", "o", "u", "r", "n", "a", "l", "_", "o", "f", "_", "x">>), P(config, "schema", "name"), Lit(<<"I", "E", "E", "E", " ", "J", "o", "u", "r", "n", "a", "l", " ", "o", "f", " ", "X">>)),
          Triple(BaseUri(<<"a", "1">>), P(config, "schema", "isPartOf"), BaseUri(<<"i", "e", "e", "e", "_", "j", "o", "u", "r", "n", "a", "l", "_", "o", "f", "_", "x">>))}
    \cup EndToEndAuthor(config, <<"1">>, <<"S", "m", "i", "t", "h", ",", " ", "J", ".">>, <<"S", "m", "i", "t", "h">>, <<"J", ".">>)
    \cup EndToEndAuthor(config, <<"2">>, <<"L", "e", "e", ",", " ", "K", ".">>, <<"L", "e", "e">>, <<"K", ".">>)
C5_EndToEnd ==
    (pc = "done" /\ cfg = CfgDefault /\ rows = <<Row(IdA, PayloadEndToEnd)>>) =>
        /\ output.kind = "ok"
        /\ EndToEndTriples(cfg) \subseteq output.graph
        /\ output.triple_count = Cardinality(output.graph)

\* C6: in a row that is not skipped, a field whose cell has no value (no
\* column, missing, NaN, empty, whitespace or the text "nan") gives no triple
\* and no entity and raises nothing: the graph is the one the rows give with
\* those cells left out.
WithoutNoValues(row) ==
    [f \in Fields |-> IF f # "id" /\ NoValueCell(row[f]) THEN Absent ELSE row[f]]
C6_NoValueNoTriple ==
    InRun => /\ g = FreshRun([i \in DOMAIN rows |-> WithoutNoValues(rows[i])]).g
             /\ (pc = "raised") = FreshRun([i \in DOMAIN rows |-> WithoutNoValues(rows[i])]).raised

\* C7: a citation count that passes valid_literal and that int() cannot parse
\* fails the whole run: the call raises at that row, no later row is
\* processed, and the handler gets neither the serialized graph nor a triple
\* count.
BadCitation(row) ==
    /\ ~RowSkipped(row)
    /\ Truthy(valid_literal(RowGetNone(row, "cited_by")))
    /\ ~IsIntText(valid_literal(RowGetNone(row, "cited_by")).s)
C7_BadCitationFailsRun ==
    (\E i \in DOMAIN rows : BadCitation(rows[i])) =>
        /\ pc \in {"raised", "failed"}
        /\ BadCitation(rows[Len(rows)])
        /\ \A i \in 1..(Len(rows) - 1) : ~BadCitation(rows[i])
        /\ output.kind # "ok" /\ output.graph = {} /\ output.triple_count = 0
        /\ pc = "failed" => output.kind = "error"

\* the run failed at its second row, after a first row that gave triples
C7_Witness ==
    /\ pc = "failed" /\ Len(rows) = 2 /\ BadCitation(rows[2])
    /\ FreshRun(<<rows[1]>>).g # {}
    /\ output.kind = "error" /\ output.graph = {}

\* the rows of the run that were not skipped, in order
Processed == SelectSeq(rows, LAMBDA r : ~RowSkipped(r))
RECURSIVE Flatten(_)
Flatten(seqs) == IF seqs = <<>> THEN <<>> ELSE Head(seqs) \o Flatten(Tail(seqs))
\* how many g.add calls of the run satisfy Ok
AddsCount(Ok(_)) == BagCardinality([e \in {x \in DOMAIN adds : Ok(x)} |-> adds[e]])
First(entries, token) ==
    entries[CHOOSE i \in DOMAIN entries :
                entries[i].token = token /\ \A j \in 1..(i - 1) : entries[j].token # token]

\* the funding entries of a row that name an organization, in order: the
\* article, the organization's token and its normalized name
RowFundingEntries(row) ==
    LET details == valid_literal(RowGetNone(row, "funding_details"))
        parts == IF Truthy(details) THEN Split(details.s, ";") ELSE <<>>
        names == [i \in DOMAIN parts |-> normalize_organization_name(PyStrOf(Strip(parts[i])))]
        named == SelectSeq(names, Truthy)
    IN [i \in DOMAIN named |->
           [eid |-> RowEid(row), token |-> clean_for_uri(named[i]), name |-> named[i].s]]
FundingEntries == Flatten([i \in DOMAIN Processed |-> RowFundingEntries(Processed[i])])

FunderTypeTriple(token) ==
    Triple(BaseUri(token), RdfType, resolve_prefix(cfg.funding_organization, cfg))
FunderLinks(token) ==
    {t \in g : t.p = P(cfg, "schema", "funding") /\ t.o = BaseUri(token)}

\* C4 as amended: for the funding entries of a run whose names map to one
\* token, the funding step adds the funder's type triple once and its name
\* triple once, with the first-seen normalized name, and adds a link triple at
\* every entry; the graph holds one link triple for each distinct article
\* among the entries.
C4_FunderDeclaredOnce ==
    InRun =>
        \A entries \in {FundingEntries} :
        \A token \in {entries[i].token : i \in DOMAIN entries} :
            LET mine == SelectSeq(entries, LAMBDA e : e.token = token)
                name == Triple(BaseUri(token), P(cfg, "schema", "name"), Lit(First(entries, token).name))
            IN /\ AddsCount(LAMBDA e : e[1] = "funding_type" /\ e[2].s = BaseUri(token)) = 1
               /\ AddsCount(LAMBDA e : e[1] = "funding_name" /\ e[2].s = BaseUri(token)) = 1
               /\ CopiesIn(<<"funding_type", FunderTypeTriple(token)>>, adds) = 1
               /\ CopiesIn(<<"funding_name", name>>, adds) = 1
               /\ {FunderTypeTriple(token), name} \subseteq g
               /\ organizations_registry[token] = First(entries, token).name
               /\ AddsCount(LAMBDA e : e[1] = "funding_link" /\ e[2].o = BaseUri(token)) = Len(mine)
               /\ FunderLinks(token) =
                      {Triple(BaseUri(mine[i].eid), P(cfg, "schema", "funding"), BaseUri(token)) : i \in DOMAIN mine}

\* C4: two funding entries, in one row or in two, whose names map to one
\* token give one type triple, one name triple and two link triples.
C4_TwoEntriesTwoLinks ==
    InRun =>
        \A token \in {FundingEntries[i].token : i \in DOMAIN FundingEntries} :
            Len(SelectSeq(FundingEntries, LAMBDA e : e.token = token)) = 2
                => /\ FunderTypeTriple(token) \in g
                   /\ Cardinality(FunderLinks(token)) = 2

\* three entries have one token: two of one row, with two names, and one of
\* another article; the graph has two link triples for them
C4_Witness ==
    /\ pc = "rows"
    /\ \E i, j, k \in DOMAIN FundingEntries :
          /\ i < j
          /\ FundingEntries[i].token = FundingEntries[j].token
          /\ FundingEntries[i].token = FundingEntries[k].token
          /\ FundingEntries[i].eid = FundingEntries[j].eid
          /\ FundingEntries[i].name # FundingEntries[j].name
          /\ FundingEntries[i].eid # FundingEntries[k].eid
          /\ Cardinality(FunderLinks(FundingEntries[i].token)) = 2

\* the author ids and abbreviations of a row, as the loop splits them
RowAuthorIds(row) == Split(PyStr(RowGet(row, "author_ids", EmptyStr)), ";")
RowAuthorAbbrevs(row) == Split(PyStr(RowGet(row, "author_abbreviations", EmptyStr)), ";")
Min(a, b) == IF a <= b THEN a ELSE b
\* the positions of a row's author ids that are paired and not empty
PairedIds(row) ==
    {i \in 1..Min(Len(RowAuthorIds(row)), Len(RowAuthorAbbrevs(row))) :
        Strip(RowAuthorIds(row)[i]) # <<>>}
AuthorToken(row, i) == Token(Strip(RowAuthorIds(row)[i]))
AuthorLink(row, i) ==
    Triple(BaseUri(RowEid(row)), P(cfg, "schema", "author"), BaseUri(AuthorToken(row, i)))
\* the paired positions of the rows that were not skipped, row after row
PairedPositions ==
    Flatten([n \in DOMAIN Processed |->
        SelectSeq([i \in 1..Min(Len(RowAuthorIds(Processed[n])), Len(RowAuthorAbbrevs(Processed[n]))) |-> i],
                  LAMBDA i : i \in PairedIds(Processed[n]))])

\* C9: author ids and abbreviations are paired by position and the shorter
\* list decides: min(len(ids), len(abbreviations)) pairs are gone through, an
\* entry past that gives no author entity and no link, and every pair with a
\* non-empty id gives its article-to-author link, with or without a full name.
C9_ZipShorterWins ==
    InRun =>
        /\ AddsCount(LAMBDA e : e[1] = "author_link")
              = Len(PairedPositions)
        /\ {e[2] : e \in {x \in DOMAIN adds : x[1] = "author_link"}}
              = UNION {{AuthorLink(Processed[n], i) : i \in PairedIds(Processed[n])} : n \in DOMAIN Processed}
        /\ {e[2].s : e \in {x \in DOMAIN adds : x[1] = "author"}}
              = UNION {{BaseUri(AuthorToken(Processed[n], i)) : i \in PairedIds(Processed[n])} : n \in DOMAIN Processed}
        /\ \A n \in DOMAIN Processed : \A i \in PairedIds(Processed[n]) :
              AuthorLink(Processed[n], i) \in g

\* a row has more author ids than abbreviations: a trailing id has a full name
\* and no entity, and a paired id without a full name has its link
C9_Witness ==
    /\ pc = "rows" /\ Len(rows) = 1 /\ ~RowSkipped(rows[1])
    /\ Len(RowAuthorIds(rows[1])) > Len(RowAuthorAbbrevs(rows[1]))
    /\ Len(RowAuthorAbbrevs(rows[1])) > 1
    /\ \E i \in DOMAIN RowAuthorIds(rows[1]) :
          /\ i > Len(RowAuthorAbbrevs(rows[1]))
          /\ FullNameOf(FullNameMatches(rows[1]), Strip(RowAuthorIds(rows[1])[i])) # <<>>
          /\ \A t \in g : t.s # BaseUri(AuthorToken(rows[1], i)) /\ t.o # BaseUri(AuthorToken(rows[1], i))
    /\ \E i \in PairedIds(rows[1]) :
          /\ FullNameOf(FullNameMatches(rows[1]), Strip(RowAuthorIds(rows[1])[i])) = <<>>
          /\ AuthorLink(rows[1], i) \in g

\* the keywords of a row, in the order the loop meets them: the article, the
\* keyword's token and the trimmed keyword
RowKeywords(row) ==
    LET cells == [c \in DOMAIN cfg.keyword_columns |-> RowGet(row, cfg.keyword_columns[c], EmptyStr)]
        kws == Flatten([c \in DOMAIN cells |->
                   IF IsNa(cells[c]) THEN <<>> ELSE Split(PyStr(cells[c]), ";")])
        trimmed == SelectSeq([i \in DOMAIN kws |-> Strip(kws[i])], LAMBDA k : k # <<>>)
    IN [i \in DOMAIN trimmed |->
           [eid |-> RowEid(row), token |-> Token(trimmed[i]), label |-> trimmed[i]]]
Keywords == Flatten([i \in DOMAIN Processed |-> RowKeywords(Processed[i])])
KeywordTypeTriple(token) == Triple(BaseUri(token), RdfType, resolve_prefix(cfg.keyword, cfg))

\* C10: after any rows of a run, every keyword token of a row that was not
\* skipped has one type triple and one language-tagged preferred label, the
\* first-seen trimmed keyword, and every such row with the keyword has its
\* article-to-keyword link.
C10_KeywordDeclaredOnce ==
    InRun =>
        \A kws \in {Keywords} :
        \A n \in DOMAIN kws :
            LET token == kws[n].token
                label == Triple(BaseUri(token), P(cfg, "skos", "prefLabel"),
                                TypedLit(First(kws, token).label, "@en"))
            IN /\ KeywordTypeTriple(token) \in g
               /\ AddsCount(LAMBDA e : e[1] = "keyword_type" /\ e[2].s = BaseUri(token)) = 1
               /\ {t \in g : t.s = BaseUri(token) /\ t.p = P(cfg, "skos", "prefLabel")} = {label}
               /\ AddsCount(LAMBDA e : e[1] = "keyword_label" /\ e[2].s = BaseUri(token)) = 1
               /\ keyword_seen[token] = First(kws, token).label
               /\ Triple(BaseUri(kws[n].eid), P(cfg, "dct", "subject"), BaseUri(token)) \in g

\* a keyword came in two spellings in two columns of a row and again in a row
\* of another article
C10_Witness ==
    /\ pc = "rows"
    /\ \E i, j, k \in DOMAIN Keywords :
          /\ i < j /\ j < k
          /\ Keywords[i].token = Keywords[j].token /\ Keywords[i].token = Keywords[k].token
          /\ Keywords[i].eid = Keywords[j].eid /\ Keywords[i].label # Keywords[j].label
          /\ Keywords[i].eid # Keywords[k].eid
          /\ Triple(BaseUri(Keywords[k].eid), P(cfg, "dct", "subject"), BaseUri(Keywords[k].token)) \in g

\* a step of the loop: the run was going through rows before it and is in the
\* same call after it
LoopStep == pc = "rows" /\ pc' \in {"rows", "raised"}
\* a registry only gains keys and keeps the label of every key it has
RegistryGrows(before, after) ==
    /\ DOMAIN before \subseteq DOMAIN after
    /\ \A k \in DOMAIN before : after[k] = before[k]
\* every token of a registry has the type triple of its entity in the graph
RegistriesDeclared ==
    /\ \A k \in DOMAIN keyword_seen : KeywordTypeTriple(k) \in g
    /\ \A k \in DOMAIN organizations_registry : FunderTypeTriple(k) \in g
\* the graph and the registries of the run are those of a first run on its rows
AsFirstRun ==
    \A fresh \in {FreshRun(rows)} :
        /\ g = fresh.g
        /\ keyword_seen = fresh.keyword_seen
        /\ organizations_registry = fresh.organizations_registry

\* C11: at every point of a run the triple set only grows, the registries
\* keyword_seen and organizations_registry only gain keys and never change the
\* label of a key they have, and every token of a registry has its entity's
\* type triple in the graph; every run starts with both registries (and the
\* graph) empty, so a later run on the same rows does not see an earlier run's
\* entries.
C11_RunStateGrows ==
    /\ [](InRun => RegistriesDeclared /\ AsFirstRun)
    /\ [][(LoopStep => /\ g \subseteq g'
                       /\ RegistryGrows(keyword_seen, keyword_seen')
                       /\ RegistryGrows(organizations_registry, organizations_registry'))
          /\ (pc # "rows" /\ pc' = "rows"
                 => g' = {} /\ keyword_seen' = EmptyDict /\ organizations_registry' = EmptyDict)]_vars

\* the second run has gone through two rows: a keyword of the first row came
\* again in another spelling and the registry has the first one, and a funder
\* is in its registry
C11_Witness ==
    /\ run = 2 /\ pc = "rows" /\ Len(rows) = 2
    /\ organizations_registry # EmptyDict
    /\ \E i, j \in DOMAIN Keywords :
          /\ i < j /\ Keywords[i].token = Keywords[j].token
          /\ Keywords[i].eid # Keywords[j].eid
          /\ Keywords[i].label # Keywords[j].label
          /\ keyword_seen[Keywords[i].token] = First(Keywords, Keywords[i].token).label

=============================================================================
